---- MODULE Spec2Model ----
(***************************************************************************)
(* A model of octets.py: the `octets` bytes wrapper.                       *)
(*                                                                         *)
(* Byte strings are sequences of byte values, text is a sequence of code   *)
(* points.  A Python object is a record tagged by its type in field t.     *)
(* The outcome of a call is Ok(v) or Raise(exception name).                *)
(* The module is importable under three interpreters, which select         *)
(* different method bodies (six.PY2, six.PY3, _LESS_THAN_PY35): variable   *)
(* py records which one imported it.                                       *)
(***************************************************************************)
EXTENDS Integers, Sequences, FiniteSets, TLC

VARIABLES
  py,      \* the interpreter that imported the module
  status,  \* "new", "constructed" or "failed"
  made,    \* the arguments of the constructor call and its outcome
  _bytes,  \* the instance's attribute
  last,    \* the last operation, its arguments and its outcome
  it,      \* the live iterator's position, NoIterator without one
  out,     \* the items the live iterator has yielded
  lists    \* the lists of the completed iterations

vars == <<py, status, made, _bytes, last, it, out, lists>>

(* ------------------------------ bounds --------------------------------- *)
MaxLen == 3
MaxTextLen == 2
MaxInt == 11
MaxHalves == 3
MaxCoeff == 12
MaxExp == 2
MaxIndex == 4
MaxRuns == 2

(* --------------------------- Python values ----------------------------- *)
None == "None"

Ok(v) == [kind |-> "ok", v |-> v]

Raise(e) == [kind |-> "raise", exc |-> e]

ord ==
  [c \in {"%", "(", ")", "'", "a", "b", "c", "d", "e", "f", "g", "i", "k", "o",
          "r", "s", "t", "u", "x", "z", "E", "F", "G", "X", "\\", "1", "-",
          ".", "0", "5", "+", "?", "{", "}", ":", " "} |->
     CASE c = "%" -> 37 [] c = "(" -> 40 [] c = ")" -> 41 [] c = "'" -> 39
       [] c = "a" -> 97 [] c = "b" -> 98 [] c = "c" -> 99 [] c = "d" -> 100
       [] c = "e" -> 101 [] c = "f" -> 102 [] c = "g" -> 103 [] c = "i" -> 105
       [] c = "k" -> 107 [] c = "o" -> 111 [] c = "r" -> 114 [] c = "s" -> 115
       [] c = "t" -> 116 [] c = "u" -> 117 [] c = "x" -> 120 [] c = "z" -> 122
       [] c = "E" -> 69 [] c = "F" -> 70 [] c = "G" -> 71 [] c = "X" -> 88
       [] c = "\\" -> 92 [] c = "1" -> 49 [] c = "-" -> 45 [] c = "." -> 46
       [] c = "0" -> 48 [] c = "5" -> 53 [] c = "+" -> 43 [] c = "?" -> 63
       [] c = "{" -> 123 [] c = "}" -> 125 [] c = ":" -> 58 [] c = " " -> 32]

\* The code units of a literal written as a tuple of characters.
Lit(cs) == [i \in 1..Len(cs) |-> ord[cs[i]]]

PyInt(n) == [t |-> "int", n |-> n]

PyFloat(h) == [t |-> "float", halves |-> h]

PyDecimal(sign, coeff, exp) == [t |-> "Decimal", sign |-> sign, coeff |-> coeff, exp |-> exp]

PyText(cps) == [t |-> "text", cps |-> cps]

PyBytes(b) == [t |-> "bytes", b |-> b]

PyTuple(els) == [t |-> "tuple", els |-> els]

PyDict(items) == [t |-> "dict", items |-> items]

PyOther(typ) == [t |-> typ]

RECURSIVE SeqsUpTo(_, _)
SeqsUpTo(S, n) ==
  IF n = 0 THEN {<<>>}
  ELSE LET shorter == SeqsUpTo(S, n - 1)
       IN  shorter \cup {Append(s, x) : s \in shorter, x \in S}

RECURSIVE Repeat(_, _)
Repeat(x, n) == IF n <= 0 THEN <<>> ELSE <<x>> \o Repeat(x, n - 1)

(* ----------------- str() of the numeric types (line 66) ---------------- *)
RECURSIVE Digits(_)
Digits(n) == IF n < 10 THEN <<48 + n>> ELSE Digits(n \div 10) \o <<48 + (n % 10)>>

\* str(int): a minus sign for a negative number, then the base-10 digits.
StrInt(n) == IF n < 0 THEN Lit(<<"-">>) \o Digits(0 - n) ELSE Digits(n)

\* str(float) of the float h/2: shortest repr, always with a fraction digit.
StrFloat(h) ==
  LET a == IF h < 0 THEN 0 - h ELSE h
  IN  (IF h < 0 THEN Lit(<<"-">>) ELSE <<>>)
        \o Digits(a \div 2) \o Lit(<<".">>)
        \o (IF a % 2 = 0 THEN Lit(<<"0">>) ELSE Lit(<<"5">>))

\* Decimal.__str__: plain notation when exp <= 0 and leftdigits > -6,
\* scientific notation otherwise.
StrDecimal(sign, coeff, exp) ==
  LET int == Digits(coeff)
      leftdigits == exp + Len(int)
      dotplace == IF exp <= 0 /\ leftdigits > -6 THEN leftdigits ELSE 1
      intpart == IF dotplace <= 0 THEN Lit(<<"0">>)
                 ELSE IF dotplace >= Len(int)
                      THEN int \o Repeat(48, dotplace - Len(int))
                      ELSE SubSeq(int, 1, dotplace)
      fracpart == IF dotplace <= 0
                  THEN Lit(<<".">>) \o Repeat(48, 0 - dotplace) \o int
                  ELSE IF dotplace >= Len(int) THEN <<>>
                       ELSE Lit(<<".">>) \o SubSeq(int, dotplace + 1, Len(int))
      e == leftdigits - dotplace
      exppart == IF e = 0 THEN <<>>
                 ELSE Lit(<<"E">>) \o (IF e < 0 THEN Lit(<<"-">>) \o Digits(0 - e)
                                      ELSE Lit(<<"+">>) \o Digits(e))
  IN  (IF sign = 1 THEN Lit(<<"-">>) ELSE <<>>) \o intpart \o fracpart \o exppart

PyStr(object) ==
  CASE object.t = "int" -> StrInt(object.n)
    [] object.t = "float" -> StrFloat(object.halves)
    [] object.t = "Decimal" -> StrDecimal(object.sign, object.coeff, object.exp)

(* --------------------- text.encode(encoding, errors) ------------------- *)
HexDigit(d) == IF d < 10 THEN 48 + d ELSE 87 + d

RECURSIVE Hex(_, _)
Hex(n, width) == IF width = 0 THEN <<>> ELSE Hex(n \div 16, width - 1) \o <<HexDigit(n % 16)>>

Encodable(cp, encoding) ==
  CASE encoding = "ascii" -> cp < 128
    [] encoding \in {"latin-1", "charmap"} -> cp < 256
    [] encoding = "utf-8" -> TRUE

\* The bytes of one encodable code point.
EncodeChar(cp, encoding) ==
  IF encoding = "utf-8" /\ cp >= 128
  THEN IF cp < 2048
       THEN <<192 + (cp \div 64), 128 + (cp % 64)>>
       ELSE <<224 + (cp \div 4096), 128 + ((cp \div 64) % 64), 128 + (cp % 64)>>
  ELSE <<cp>>

\* What the error handler puts in place of an unencodable code point.
Replacement(cp, errors) ==
  CASE errors = "ignore" -> <<>>
    [] errors = "replace" -> Lit(<<"?">>)
    [] errors = "backslashreplace" ->
         IF cp < 256 THEN Lit(<<"\\", "x">>) \o Hex(cp, 2)
         ELSE Lit(<<"\\", "u">>) \o Hex(cp, 4)

RECURSIVE EncodeFrom(_, _, _, _)
EncodeFrom(cps, i, encoding, errors) ==
  IF i > Len(cps) THEN Ok(<<>>)
  ELSE IF Encodable(cps[i], encoding)
       THEN LET rest == EncodeFrom(cps, i + 1, encoding, errors)
            IN  IF rest.kind = "ok" THEN Ok(EncodeChar(cps[i], encoding) \o rest.v) ELSE rest
       ELSE IF errors = "strict" THEN Raise("UnicodeEncodeError")
            ELSE IF errors \notin {"ignore", "replace", "backslashreplace"}
                 THEN Raise("LookupError")
                 ELSE LET rest == EncodeFrom(cps, i + 1, encoding, errors)
                      IN  IF rest.kind = "ok" THEN Ok(Replacement(cps[i], errors) \o rest.v)
                          ELSE rest

\* text.encode(encoding, errors); text.encode(encoding) is errors = "strict".
Encode(cps, encoding, errors) == EncodeFrom(cps, 1, encoding, errors)

(* ------------------------- octets.__init__ ----------------------------- *)
_numeric_types == {"int", "float", "Decimal"}

\* A mutation: the error policy is dropped and the text always encoded strictly.
InitIgnoringErrors(object, encoding, errors) ==
  IF object.t \in _numeric_types THEN Encode(PyStr(object), "ascii", "strict")
  ELSE IF object.t = "text"
       THEN IF encoding = None THEN Raise("TypeError")
            ELSE Encode(object.cps, encoding, "strict")
       ELSE IF object.t = "bytes" THEN Ok(object.b)
            ELSE Raise("TypeError")

\* A mutation: a numeric source is encoded with the caller's encoding, and
\* refused without one, as text is.
InitEncodingNumbers(object, encoding, errors) ==
  IF object.t \in _numeric_types \cup {"text"}
  THEN IF encoding = None THEN Raise("TypeError")
       ELSE Encode(IF object.t = "text" THEN object.cps ELSE PyStr(object), encoding,
                   IF errors \notin {None, ""} THEN errors ELSE "strict")
  ELSE IF object.t = "bytes" THEN Ok(object.b)
       ELSE Raise("TypeError")

\* The value bound to self._bytes, or the exception raised.
__init__(object, encoding, errors) ==
  IF object.t \in _numeric_types THEN Encode(PyStr(object), "ascii", "strict")
  ELSE IF object.t = "text"
       THEN IF encoding = None THEN Raise("TypeError")
            ELSE IF errors \notin {None, ""}          \* `if errors:`
                 THEN Encode(object.cps, encoding, errors)
                 ELSE Encode(object.cps, encoding, "strict")
       ELSE IF object.t = "bytes" THEN Ok(object.b)
            ELSE Raise("TypeError")

(* ---------------- bytes indexing and slicing (builtin) ------------------ *)
PySliceOf(lo, hi, step) == [t |-> "slice", lo |-> lo, hi |-> hi, step |-> step]

\* An omitted slice bound (Python's None) is <<>>, a given bound n is <<n>>.
Omitted == <<>>

Given(n) == <<n>>

\* PySlice_AdjustIndices: a bound counted from the end, then clamped.
AdjustBound(x, len, step, default) ==
  IF x = Omitted THEN default
  ELSE LET y == IF x[1] < 0 THEN x[1] + len ELSE x[1]
       IN  IF y < 0 THEN (IF step < 0 THEN -1 ELSE 0)
           ELSE IF y >= len THEN (IF step < 0 THEN len - 1 ELSE len)
                ELSE y

RECURSIVE Walk(_, _, _, _)
Walk(b, i, stop, step) ==
  IF (step > 0 /\ i < stop) \/ (step < 0 /\ i > stop)
  THEN <<b[i + 1]>> \o Walk(b, i + step, stop, step)
  ELSE <<>>

\* b[lo:hi:step] with zero-based bounds; step # 0.
Slice(b, lo, hi, step) ==
  LET st == IF step = Omitted THEN 1 ELSE step[1]
      start == AdjustBound(lo, Len(b), st, IF st < 0 THEN Len(b) - 1 ELSE 0)
      stop == AdjustBound(hi, Len(b), st, IF st < 0 THEN -1 ELSE Len(b))
  IN  Walk(b, start, stop, st)

\* b[key] for an integer key on Python 3: the byte as an int.
Index3(b, key) ==
  IF key >= 0 - Len(b) /\ key < Len(b)
  THEN Ok(PyInt(b[(IF key < 0 THEN key + Len(b) ELSE key) + 1]))
  ELSE Raise("IndexError")

\* b[key] on Python 2, where bytes is str: a str of length one.
Index2(b, key) ==
  IF key.t = "slice"
  THEN IF key.step = Given(0) THEN Raise("ValueError")
       ELSE Ok(PyBytes(Slice(b, key.lo, key.hi, key.step)))
  ELSE IF key.t = "int"
       THEN IF key.n >= 0 - Len(b) /\ key.n < Len(b)
            THEN Ok(PyBytes(<<b[(IF key.n < 0 THEN key.n + Len(b) ELSE key.n) + 1]>>))
            ELSE Raise("IndexError")
       ELSE Raise("TypeError")

(* ------------------------- octets.__getitem__ -------------------------- *)
\* A mutation: the upper bound is key + 1 for every key, also for -1.
GetItemNoLastCase(b, key) ==
  IF key.t = "slice"
  THEN IF key.step = Given(0) THEN Raise("ValueError")
       ELSE Ok(PyBytes(Slice(b, key.lo, key.hi, key.step)))
  ELSE IF key.t = "int"
       THEN IF Index3(b, key.n).kind = "raise" THEN Index3(b, key.n)
            ELSE Ok(PyBytes(Slice(b, Given(key.n), Given(key.n + 1), Omitted)))
       ELSE Raise("TypeError")

__getitem__py2(b, key) == Index2(b, key)

__getitem__py3(b, key) ==
  IF key.t = "slice"
  THEN IF key.step = Given(0) THEN Raise("ValueError")
       ELSE Ok(PyBytes(Slice(b, key.lo, key.hi, key.step)))
  ELSE IF key.t = "int"
       THEN IF Index3(b, key.n).kind = "raise"
            THEN Index3(b, key.n)                        \* for the IndexError
            ELSE LET upperbound == IF key.n = -1 THEN Omitted ELSE Given(key.n + 1)
                 IN  Ok(PyBytes(Slice(b, Given(key.n), upperbound, Omitted)))
       ELSE Raise("TypeError")

__getitem__(v, b, key) ==
  IF v = "py2" THEN __getitem__py2(b, key) ELSE __getitem__py3(b, key)

(* --------------------------- octets.__iter__ --------------------------- *)
\* A mutation: the generator yields self._bytes[i], an int on Python 3.
IterItemInt(v, b, i) == PyInt(b[i + 1])

\* What the iterator yields at zero-based position i < len(b): on Python 2
\* the str iterator's one-character str, on Python 3 the slice [i:i + 1].
IterItem(v, b, i) ==
  IF v = "py2" THEN PyBytes(<<b[i + 1]>>)
  ELSE PyBytes(Slice(b, Given(i), Given(i + 1), Omitted))

(* --------------- octets._to_text (__str__ / __unicode__) --------------- *)
\* A mutation: the instance decodes itself, one code point per byte.
ToTextDecoding(b) == Ok(PyText(b))

_to_text(b) == Raise("TypeError")

(* ------------------------------ repr() --------------------------------- *)
RECURSIVE EscapeBytes(_, _, _)
EscapeBytes(b, i, quote) ==
  IF i > Len(b) THEN <<>>
  ELSE (IF b[i] = quote \/ b[i] = 92 THEN <<92, b[i]>>
        ELSE IF b[i] >= 32 /\ b[i] < 127 THEN <<b[i]>>
             ELSE Lit(<<"\\", "x">>) \o Hex(b[i], 2))
       \o EscapeBytes(b, i + 1, quote)

Contains(b, x) == \E i \in 1..Len(b) : b[i] = x

\* repr(bytes): b'...' (b"..." when the content has ' and no "), with
\* backslash, the quote and the unprintable bytes escaped.  The inputs of
\* the model hold no tab, newline or carriage return.
ReprBytes(b) ==
  LET quote == IF Contains(b, 39) /\ ~Contains(b, 34) THEN 34 ELSE 39
  IN  Lit(<<"b">>) \o <<quote>> \o EscapeBytes(b, 1, quote) \o <<quote>>

\* repr of a scalar; text here is printable ASCII without quotes.
ReprScalar(v) ==
  CASE v.t = "bytes" -> ReprBytes(v.b)
    [] v.t = "text" -> Lit(<<"'">>) \o v.cps \o Lit(<<"'">>)
    [] v.t = "int" -> StrInt(v.n)

\* repr of an argument: a scalar, or a dict of at most one item.
Repr(v) ==
  IF v.t = "dict"
  THEN IF v.items = {} THEN Lit(<<"{", "}">>)
       ELSE LET item == CHOOSE x \in v.items : TRUE
            IN  Lit(<<"{">>) \o ReprScalar(item[1]) \o Lit(<<":", " ">>)
                  \o ReprScalar(item[2]) \o Lit(<<"}">>)
  ELSE ReprScalar(v)

\* str(v) on Python 3: text is itself, anything else its repr.
Str(v) == IF v.t = "text" THEN v.cps ELSE Repr(v)

(* --------------- printf-style formatting (the % builtin) --------------- *)
\* mode "bytes" is bytes % args (Python 3.5 and later), mode "str" is
\* str % args.  The templates of the model hold no flags, width, precision
\* or length modifier, so a conversion is "%", an optional (key), a type.
Then(prefix, rest) == IF rest.kind = "ok" THEN Ok(prefix \o rest.v) ELSE rest

RECURSIVE FindClose(_, _, _)
\* The index of the parenthesis closing a key opened before i, 0 if none.
FindClose(fmt, i, pcount) ==
  IF i > Len(fmt) THEN 0
  ELSE IF fmt[i] = 41
       THEN IF pcount = 1 THEN i ELSE FindClose(fmt, i + 1, pcount - 1)
       ELSE IF fmt[i] = 40 THEN FindClose(fmt, i + 1, pcount + 1)
            ELSE FindClose(fmt, i + 1, pcount)

Lookup(items, key) ==
  IF \E x \in items : x[1] = key
  THEN Ok((CHOOSE x \in items : x[1] = key)[2])
  ELSE Raise("KeyError")

Convert(mode, c, v) ==
  IF c \in {ord["r"], ord["a"]} THEN Ok(Repr(v))
  ELSE IF c = ord["s"] /\ mode = "str" THEN Ok(Str(v))
  ELSE IF c \in {ord["s"], ord["b"]} /\ mode = "bytes"
       THEN IF v.t = "bytes" THEN Ok(v.b) ELSE Raise("TypeError")
  ELSE IF c \in {ord["d"], ord["i"], ord["u"]}
       THEN IF v.t = "int" THEN Ok(StrInt(v.n)) ELSE Raise("TypeError")
  ELSE Raise("ValueError")                    \* unsupported format character

RECURSIVE FormatFrom(_, _, _, _, _, _, _)
FormatFrom(mode, fmt, i, top, cur, arglen, argidx) ==
  IF i > Len(fmt)
  THEN IF argidx < arglen /\ top.t # "dict"
       THEN Raise("TypeError")                \* not all arguments converted
       ELSE Ok(<<>>)
  ELSE IF fmt[i] # 37
  THEN Then(<<fmt[i]>>, FormatFrom(mode, fmt, i + 1, top, cur, arglen, argidx))
  ELSE LET keyed == i + 1 <= Len(fmt) /\ fmt[i + 1] = 40
           close == IF keyed THEN FindClose(fmt, i + 2, 1) ELSE 0
       IN
       IF keyed /\ top.t # "dict" THEN Raise("TypeError")   \* format requires a mapping
       ELSE IF keyed /\ close = 0 THEN Raise("ValueError")  \* incomplete format key
       ELSE LET key == SubSeq(fmt, i + 2, close - 1)
                looked == IF keyed
                          THEN Lookup(top.items,
                                      IF mode = "bytes" THEN PyBytes(key) ELSE PyText(key))
                          ELSE Ok(cur)
                j == IF keyed THEN close + 1 ELSE i + 1
                len2 == IF keyed THEN -1 ELSE arglen
                idx2 == IF keyed THEN -2 ELSE argidx
            IN
            IF looked.kind = "raise" THEN looked
            ELSE IF j > Len(fmt) THEN Raise("ValueError")   \* incomplete format
            ELSE IF fmt[j] = 37 /\ ~keyed                  \* %% is a literal %
            THEN Then(<<37>>, FormatFrom(mode, fmt, j + 1, top, looked.v, len2, idx2))
            ELSE IF ~(idx2 < len2) THEN Raise("TypeError")  \* not enough arguments
            ELSE LET v == IF len2 < 0 THEN looked.v ELSE looked.v.els[idx2 + 1]
                     conv == Convert(mode, fmt[j], v)
                 IN  IF conv.kind = "raise" THEN conv
                     ELSE Then(conv.v,
                               FormatFrom(mode, fmt, j + 1, top, looked.v, len2, idx2 + 1))

\* fmt % args
Format(mode, fmt, args) ==
  IF args.t = "tuple" THEN FormatFrom(mode, fmt, 1, args, args, Len(args.els), 0)
  ELSE FormatFrom(mode, fmt, 1, args, args, -1, -2)

(* ------------------- _BYTES_FORMAT and its sub() ----------------------- *)
\* The characters the key of %(key)b may not hold: [^)diouxXeEfFgGcrs%].
KeyStop ==
  {ord[c] : c \in {")", "d", "i", "o", "u", "x", "X", "e", "E", "f", "F", "g",
                   "G", "c", "r", "s", "%"}}

RECURSIVE KeyRunEnd(_, _)
\* The first index at or after i whose character is in KeyStop (or Len + 1).
KeyRunEnd(s, i) ==
  IF i > Len(s) \/ s[i] \in KeyStop THEN i ELSE KeyRunEnd(s, i + 1)

\* The length of the match of %(\([^)diouxXeEfFgGcrs%]+\))?b at index i, 0 if none.
MatchLen(s, i) ==
  IF s[i] # 37 \/ i + 1 > Len(s) THEN 0
  ELSE IF s[i + 1] = 98 THEN 2
  ELSE IF s[i + 1] # 40 THEN 0
  ELSE LET e == KeyRunEnd(s, i + 2)
       IN  IF e > i + 2 /\ e + 1 <= Len(s) /\ s[e] = 41 /\ s[e + 1] = 98
           THEN e + 2 - i
           ELSE 0

RECURSIVE SubFrom(_, _, _)
SubFrom(repl, string, i) ==
  IF i > Len(string) THEN <<>>
  ELSE IF MatchLen(string, i) > 0
       THEN repl \o SubFrom(repl, string, i + MatchLen(string, i))
       ELSE <<string[i]>> \o SubFrom(repl, string, i + 1)

\* _BYTES_FORMAT.sub(repl, string): every match in `string` replaced by
\* `repl`, a string without backslashes (so a literal replacement).
Sub(repl, string) == SubFrom(repl, string, 1)

\* r'%\1s', the second argument of both sub() calls.
Rewrite == Lit(<<"%", "\\", "1", "s">>)

(* --------------------- octets.__mod__, Python 2 ------------------------ *)
RECURSIVE Content(_)
\* The characters of a str or unicode replacement, or of a tuple of them.
Content(thing) ==
  CASE thing.t = "bytes" -> thing.b
    [] thing.t = "text" -> thing.cps
    [] thing.t = "tuple" ->
         IF thing.els = <<>> THEN <<>>
         ELSE Content(Head(thing.els)) \o Content(PyTuple(Tail(thing.els)))

\* _BYTES_FORMAT.sub(to_interpolate, r'%\1s') on Python 2.7, the
\* replacement being the arguments: re caches the compiled replacement under
\* a key holding it (an unhashable dict raises TypeError) and tokenizes it
\* with len() and char[0] (TypeError for an int, or a tuple holding one).
SubPy2(to_interpolate, string) ==
  IF to_interpolate.t \in {"dict", "int"} THEN Raise("TypeError")
  ELSE IF to_interpolate.t = "tuple"
          /\ \E k \in 1..Len(to_interpolate.els) : to_interpolate.els[k].t = "int"
       THEN Raise("TypeError")
       ELSE Ok(Sub(Content(to_interpolate), string))

__mod__py2(b, to_interpolate) ==
  LET format_string == SubPy2(to_interpolate, Rewrite)
  IN  IF format_string.kind = "raise" THEN format_string
      ELSE LET formatted == Format("str", format_string.v, to_interpolate)
           IN  IF formatted.kind = "raise" THEN formatted
               ELSE Ok(PyBytes(formatted.v))

(* --------------- octets.__mod__, Python 3 before 3.5 ------------------- *)
_decode(thing) ==
  IF thing.t = "bytes" THEN Ok(PyText(thing.b))      \* charmap: byte N, code point N
  ELSE IF thing.t = "text" THEN Raise("TypeError")
       ELSE Ok(thing)

\* tuple(_decode(el) for el in to_interpolate), or the dict comprehension.
DecodeAll(to_interpolate) ==
  IF to_interpolate.t = "tuple"
  THEN IF \E k \in 1..Len(to_interpolate.els) : _decode(to_interpolate.els[k]).kind = "raise"
       THEN Raise("TypeError")
       ELSE Ok(PyTuple([k \in 1..Len(to_interpolate.els) |-> _decode(to_interpolate.els[k]).v]))
  ELSE IF \E x \in to_interpolate.items :
             _decode(x[1]).kind = "raise" \/ _decode(x[2]).kind = "raise"
       THEN Raise("TypeError")
       ELSE Ok(PyDict({<<_decode(x[1]).v, _decode(x[2]).v>> : x \in to_interpolate.items}))

__mod__py34(b, to_interpolate) ==
  LET format_string == Sub(_decode(PyBytes(b)).v.cps, Rewrite)
      wrapped == IF to_interpolate.t \notin {"tuple", "dict"}
                 THEN PyTuple(<<to_interpolate>>)
                 ELSE to_interpolate
      decoded == DecodeAll(wrapped)
  IN  IF decoded.kind = "raise" THEN decoded
      ELSE LET formatted == Format("str", format_string, decoded.v)
           IN  IF formatted.kind = "raise" THEN formatted
               ELSE LET encoded == Encode(formatted.v, "charmap", "strict")
                    IN  IF encoded.kind = "raise" THEN encoded
                        ELSE Ok(PyBytes(encoded.v))

(* ---------------- octets.__mod__, Python 3.5 and later ----------------- *)
\* A mutation: the formatted bytes are wrapped in a new octets instance.
ModPy35Wrapping(b, to_interpolate) ==
  LET formatted == Format("bytes", b, to_interpolate)
  IN  IF formatted.kind = "raise" THEN formatted
      ELSE Ok([t |-> "octets", b |-> formatted.v])

__mod__py35(b, to_interpolate) ==
  LET formatted == Format("bytes", b, to_interpolate)
  IN  IF formatted.kind = "raise" THEN formatted
      ELSE Ok(PyBytes(formatted.v))

__mod__(v, b, to_interpolate) ==
  CASE v = "py2" -> __mod__py2(b, to_interpolate)
    [] v = "py34" -> __mod__py34(b, to_interpolate)
    [] v = "py35" -> __mod__py35(b, to_interpolate)

(* ------------------- comparison and representation -------------------- *)
PyBool(x) == [t |-> "bool", v |-> x]

RECURSIVE Less(_, _)
\* a < b for byte strings: lexicographic, by byte value.
Less(a, b) ==
  IF b = <<>> THEN FALSE
  ELSE IF a = <<>> THEN TRUE
       ELSE IF Head(a) # Head(b) THEN Head(a) < Head(b)
            ELSE Less(Tail(a), Tail(b))

\* __eq__, __ne__, __lt__, __gt__, __le__, __ge__ against a bytes object.
Compare(name, b, other) ==
  CASE name = "__eq__" -> PyBool(b = other)
    [] name = "__ne__" -> PyBool(b # other)
    [] name = "__lt__" -> PyBool(Less(b, other))
    [] name = "__gt__" -> PyBool(Less(other, b))
    [] name = "__le__" -> PyBool(~Less(other, b))
    [] name = "__ge__" -> PyBool(~Less(b, other))

\* "%s(%r)" % (name, self._bytes)
__repr__(b) ==
  PyText(Lit(<<"o", "c", "t", "e", "t", "s", "(">>) \o ReprBytes(b) \o Lit(<<")">>))

(* ------------- attribute lookup and octets.__getattr__ ----------------- *)
\* The names the class body binds (lines 35-179).  Python 3 also binds
\* __hash__ (to None) in a class that defines __eq__ without __hash__.
ClassDict(v) ==
  {"__init__", "__iter__", "__mod__", "__getitem__", "bytes", "__getattr__",
   "__eq__", "__ne__", "__lt__", "__gt__", "__le__", "__ge__", "__repr__"}
    \cup (IF v = "py2" THEN {"__unicode__"} ELSE {"__str__", "__hash__"})

\* The names of the base class `object` among those the model looks up.
ObjectDict == {"__class__", "__hash__", "__init__", "__repr__", "__str__"}

\* The attributes of bytes among those the model looks up.
BytesDict == {"__len__", "__add__", "__contains__", "__hash__", "startswith",
              "__iter__", "__getitem__", "__mod__", "__repr__", "__eq__"}

RECURSIVE StartsWith(_, _)
StartsWith(b, prefix) ==
  IF prefix = <<>> THEN TRUE
  ELSE IF b = <<>> THEN FALSE
       ELSE Head(b) = Head(prefix) /\ StartsWith(Tail(b), Tail(prefix))

\* The bytes method `name` applied to the byte string b and a bytes argument.
BytesCall(name, b, arg) ==
  CASE name = "__len__" -> Ok(PyInt(Len(b)))
    [] name = "__add__" -> Ok(PyBytes(b \o arg))
    [] name = "__contains__" ->
         Ok(PyBool(\E i \in 0..Len(b) : StartsWith(SubSeq(b, i + 1, Len(b)), arg)))
    [] name = "startswith" -> Ok(PyBool(StartsWith(b, arg)))
    [] name = "__hash__" -> Ok([t |-> "hash", of |-> PyBytes(b)])

\* A mutation: the fallback raises AttributeError, as if it were not defined.
GetAttrMissing(b, attribute) == Raise("AttributeError")

\* octets.__getattr__: getattr(self._bytes, attribute), a bound method of bytes.
__getattr__(b, attribute) ==
  IF attribute \in BytesDict
  THEN Ok([t |-> "method", self |-> PyBytes(b), name |-> attribute])
  ELSE Raise("AttributeError")

\* instance.attribute: the class and its base first, __getattr__ only for a
\* name neither has.
GetAttribute(v, b, attribute) ==
  IF attribute \in ClassDict(v) \cup ObjectDict
  THEN Ok([t |-> "method", self |-> [t |-> "octets", b |-> b], name |-> attribute])
  ELSE __getattr__(b, attribute)

\* instance.name(arg), for the names the model calls.
CallByName(v, b, name, arg) ==
  LET method == GetAttribute(v, b, name)
  IN  IF method.kind = "raise" THEN method
      ELSE IF method.v.self.t = "bytes" THEN BytesCall(name, method.v.self.b, arg)
           ELSE \* __hash__, the one called name the class or object has: None
                \* on Python 3 (not callable), object's identity hash on Python 2
                IF v = "py2" THEN Ok([t |-> "hash", of |-> [t |-> "id"]])
                ELSE Raise("TypeError")

\* len(x), x + arg, arg in x, hash(x): the interpreter looks the special
\* method up on type(x) and its bases, never through __getattr__.
Builtin(v, b, name, arg) ==
  IF name \in ClassDict(v) \cup ObjectDict
  THEN \* __hash__, the one modelled special method the type or object has
       IF v = "py2" THEN Ok([t |-> "hash", of |-> [t |-> "id"]]) ELSE Raise("TypeError")
  ELSE IF name = "__contains__"
       THEN \* no __contains__ on the type: the test iterates the instance
            Ok(PyBool(\E i \in 0..(Len(b) - 1) : IterItem(v, b, i) = PyBytes(arg)))
       ELSE Raise("TypeError")

\* The bytes property.
bytes(b) == Ok(PyBytes(b))

RECURSIVE Drain(_, _, _)
\* list(instance): the items the iterator yields from position i on.
Drain(v, b, i) == IF i >= Len(b) THEN <<>> ELSE <<IterItem(v, b, i)>> \o Drain(v, b, i + 1)

(* ------------------------------ inputs --------------------------------- *)
Versions == {"py2", "py34", "py35"}

Encodings == {None, "ascii", "latin-1", "utf-8"}

ErrorPolicies == {None, "", "strict", "ignore", "replace", "backslashreplace"}

\* a, e-acute, the euro sign
CodePoints == {97, 233, 8364}

Texts == SeqsUpTo(CodePoints, MaxTextLen)

Numbers ==
  {PyInt(n) : n \in (0 - MaxInt)..MaxInt}
    \cup {PyFloat(h) : h \in (0 - MaxHalves)..MaxHalves}
    \cup {PyDecimal(sg, c, e) : sg \in {0, 1}, c \in 0..MaxCoeff, e \in (0 - MaxExp)..1}

\* Byte strings over a, % and b, and longer templates.
ByteStrings ==
  SeqsUpTo({ord["a"], ord["%"], ord["b"]}, MaxLen)
    \cup {Lit(<<"%", "s">>), Lit(<<"%", "d">>), Lit(<<"%", "r">>), Lit(<<"%", "z">>),
          Lit(<<"%", "(", "k", ")", "b">>), Lit(<<"%", "(", "k", ")", "d">>),
          Lit(<<"%", "(", "k">>), Lit(<<"a", "%", "b", "%", "d">>)}

Others == {PyOther("dict"), PyOther("list"), PyOther("object"),
           [t |-> "octets", b |-> Lit(<<"a">>)]}

Sources ==
  Numbers \cup {PyText(x) : x \in Texts} \cup {PyBytes(b) : b \in ByteStrings} \cup Others

Scalars == {PyBytes(Lit(<<"x">>)), PyInt(7), PyText(Lit(<<"t">>))}

Interpolated ==
  Scalars
    \cup {PyTuple(els) : els \in SeqsUpTo(Scalars, 2)}
    \cup {PyDict({})}
    \cup {PyDict({<<k, v>>}) : k \in {PyBytes(Lit(<<"k">>)), PyText(Lit(<<"k">>))},
                                v \in Scalars}

Keys ==
  {PyInt(i) : i \in (0 - MaxIndex)..MaxIndex}
    \cup {PySliceOf(lo, hi, step) : lo \in {Omitted, Given(1), Given(-2)},
                                    hi \in {Omitted, Given(-1)},
                                    step \in {Omitted, Given(-1)}}
    \cup {PySliceOf(Omitted, Omitted, Given(0))}
    \cup {PyOther("object")}

Operands == {Lit(<<"a">>), Lit(<<"a", "b">>)}

Comparisons == {"__eq__", "__ne__", "__lt__", "__gt__", "__le__", "__ge__"}

\* name and argument of the calls instance.name(arg)
NamedCalls ==
  {<<n, <<>>>> : n \in {"__len__", "__hash__", "nosuch"}}
    \cup {<<n, x>> : n \in {"__add__", "__contains__", "startswith"}, x \in Operands}

\* len(x), hash(x), x + arg, arg in x
BuiltinCalls ==
  {<<n, <<>>>> : n \in {"__len__", "__hash__"}}
    \cup {<<n, x>> : n \in {"__add__", "__contains__"}, x \in Operands}

(* --------------------------- the state machine ------------------------- *)
NoIterator == -1

Unmade ==
  [object |-> PyOther("none"), encoding |-> None, errors |-> None, res |-> Raise("none")]

\* The module is imported and no instance constructed yet.
InitNew ==
  /\ py \in Versions
  /\ status = "new"
  /\ made = Unmade
  /\ _bytes = <<>>
  /\ last = [op |-> "import"]
  /\ it = NoIterator
  /\ out = <<>>
  /\ lists = <<>>

\* octets(object, encoding, errors)
Construct ==
  /\ status = "new"
  /\ \E object \in Sources, encoding \in Encodings, errors \in ErrorPolicies :
       LET res == __init__(object, encoding, errors)
       IN  /\ made' = [object |-> object, encoding |-> encoding, errors |-> errors,
                       res |-> res]
           /\ status' = IF res.kind = "ok" THEN "constructed" ELSE "failed"
           /\ _bytes' = IF res.kind = "ok" THEN res.v ELSE _bytes
           /\ last' = [op |-> "__init__", res |-> res]
  /\ UNCHANGED <<py, it, out, lists>>

\* The state after octets(b) for a byte string b.
Init ==
  /\ py \in Versions
  /\ status = "constructed"
  /\ \E b \in ByteStrings :
       /\ made = [object |-> PyBytes(b), encoding |-> None, errors |-> None,
                  res |-> __init__(PyBytes(b), None, None)]
       /\ _bytes = __init__(PyBytes(b), None, None).v
  /\ last = [op |-> "__init__", res |-> made.res]
  /\ it = NoIterator
  /\ out = <<>>
  /\ lists = <<>>

\* instance.bytes
ReadBytes ==
  /\ status = "constructed"
  /\ last' = [op |-> "bytes", res |-> bytes(_bytes)]
  /\ UNCHANGED <<py, status, made, _bytes, it, out, lists>>

\* instance[key]
GetItem ==
  /\ status = "constructed"
  /\ \E key \in Keys :
       last' = [op |-> "__getitem__", arg |-> key, res |-> __getitem__(py, _bytes, key)]
  /\ UNCHANGED <<py, status, made, _bytes, it, out, lists>>

\* list(instance)
ListOf ==
  /\ status = "constructed"
  /\ last' = [op |-> "list", res |-> Ok(Drain(py, _bytes, 0))]
  /\ UNCHANGED <<py, status, made, _bytes, it, out, lists>>

\* str(instance) on Python 3, unicode(instance) on Python 2
ToText ==
  /\ status = "constructed"
  /\ last' = [op |-> "text", res |-> _to_text(_bytes)]
  /\ UNCHANGED <<py, status, made, _bytes, it, out, lists>>

\* A mutation: the formatted bytes are also stored in the instance.
ModStoring ==
  /\ status = "constructed"
  /\ \E to_interpolate \in Interpolated :
       LET res == __mod__(py, _bytes, to_interpolate)
       IN  /\ last' = [op |-> "__mod__", arg |-> to_interpolate, res |-> res]
           /\ _bytes' = IF res.kind = "ok" THEN res.v.b ELSE _bytes
  /\ UNCHANGED <<py, status, made, it, out, lists>>

\* instance % to_interpolate
Mod ==
  /\ status = "constructed"
  /\ \E to_interpolate \in Interpolated :
       last' = [op |-> "__mod__", arg |-> to_interpolate,
                res |-> __mod__(py, _bytes, to_interpolate)]
  /\ UNCHANGED <<py, status, made, _bytes, it, out, lists>>

\* instance == other, instance < other, ...
CompareWith ==
  /\ status = "constructed"
  /\ \E name \in Comparisons, other \in Operands :
       last' = [op |-> name, arg |-> other, res |-> Ok(Compare(name, _bytes, other))]
  /\ UNCHANGED <<py, status, made, _bytes, it, out, lists>>

\* repr(instance)
ReprOf ==
  /\ status = "constructed"
  /\ last' = [op |-> "__repr__", res |-> Ok(__repr__(_bytes))]
  /\ UNCHANGED <<py, status, made, _bytes, it, out, lists>>

\* instance.name(arg)
GetAttr ==
  /\ status = "constructed"
  /\ \E call \in NamedCalls :
       last' = [op |-> "getattr", name |-> call[1], arg |-> call[2],
                res |-> CallByName(py, _bytes, call[1], call[2])]
  /\ UNCHANGED <<py, status, made, _bytes, it, out, lists>>

\* len(instance), hash(instance), instance + arg, arg in instance
BuiltinOn ==
  /\ status = "constructed"
  /\ \E call \in BuiltinCalls :
       last' = [op |-> "builtin", name |-> call[1], arg |-> call[2],
                res |-> Builtin(py, _bytes, call[1], call[2])]
  /\ UNCHANGED <<py, status, made, _bytes, it, out, lists>>

\* iter(instance): a new iterator at position 0
Iter ==
  /\ status = "constructed"
  /\ it = NoIterator
  /\ Len(lists) < MaxRuns
  /\ it' = 0
  /\ out' = <<>>
  /\ last' = [op |-> "__iter__"]
  /\ UNCHANGED <<py, status, made, _bytes, lists>>

\* next(iterator) yielding an item
NextItem ==
  /\ it # NoIterator
  /\ it < Len(_bytes)
  /\ out' = Append(out, IterItem(py, _bytes, it))
  /\ it' = it + 1
  /\ last' = [op |-> "next", res |-> Ok(IterItem(py, _bytes, it))]
  /\ UNCHANGED <<py, status, made, _bytes, lists>>

\* next(iterator) at the end: StopIteration, and the list is complete
StopIteration ==
  /\ it # NoIterator
  /\ it >= Len(_bytes)
  /\ it' = NoIterator
  /\ lists' = Append(lists, out)
  /\ last' = [op |-> "next", res |-> Raise("StopIteration")]
  /\ UNCHANGED <<py, status, made, _bytes, out>>

\* Construction, and reading the instance back.
NextInit == Construct \/ ReadBytes \/ ReprOf

SpecInit == InitNew /\ [][NextInit]_vars

\* The operations on a constructed instance.
Next ==
  \/ ReadBytes
  \/ GetItem
  \/ ListOf
  \/ ToText
  \/ Mod
  \/ CompareWith
  \/ ReprOf
  \/ GetAttr
  \/ BuiltinOn

Spec == Init /\ [][Next]_vars

\* The iterator protocol, step by step, with reads of the instance in between.
NextIter == Iter \/ NextItem \/ StopIteration \/ ReadBytes

SpecIter == Init /\ [][NextIter]_vars

(* ------------------------------ properties ----------------------------- *)
TextMade == status # "new" /\ made.object.t = "text"

HasUnencodable(cps, encoding) == \E i \in 1..Len(cps) : ~Encodable(cps[i], encoding)

\* t.encode(e, p), and t.encode(e) when p is absent
TextEncode(cps, encoding, errors) ==
  Encode(cps, encoding, IF errors = None THEN "strict" ELSE errors)

\* made.res is the bytes of t.encode(e, p), or an encoding error
EncodesOrFails ==
  \/ made.res = Raise("UnicodeEncodeError")
  \/ /\ made.res.kind = "ok"
     /\ made.res = TextEncode(made.object.cps, made.encoding, made.errors)
     /\ status = "constructed"
     /\ _bytes = made.res.v

\* C1 as stated: octets(t, e, p) raises TypeError when e is absent; otherwise
\* it is t.encode(e, p) or an encoding error, and it is an encoding error if
\* and only if p is absent and t has a character that e cannot encode.
C1_EncodingErrorIffPolicyAbsent ==
  TextMade =>
    IF made.encoding = None THEN made.res = Raise("TypeError")
    ELSE /\ EncodesOrFails
         /\ made.res = Raise("UnicodeEncodeError")
              <=> (made.errors = None /\ HasUnencodable(made.object.cps, made.encoding))

\* C1 amended: as C1, but the encoding error is raised if and only if t has
\* a character that e cannot encode and p is absent, empty or "strict".
C1_EncodingErrorIffStrict ==
  TextMade =>
    IF made.encoding = None THEN made.res = Raise("TypeError") /\ status = "failed"
    ELSE /\ EncodesOrFails
         /\ made.res = Raise("UnicodeEncodeError")
              <=> (made.errors \in {None, "", "strict"}
                     /\ HasUnencodable(made.object.cps, made.encoding))

C1_Witness ==
  /\ TextMade
  /\ made.errors = "strict"
  /\ made.encoding = "ascii"
  /\ made.res = Raise("UnicodeEncodeError")

RECURSIVE ParseDigits(_, _)
\* The number the ASCII digits b[1..n] spell; -1 if one is no digit.
ParseDigits(b, n) ==
  IF n = 0 THEN 0
  ELSE IF b[n] < 48 \/ b[n] > 57 \/ ParseDigits(b, n - 1) < 0 THEN -1
       ELSE 10 * ParseDigits(b, n - 1) + (b[n] - 48)

\* b is the base-10 form of n: an optional minus sign, digits spelling |n|,
\* no leading zero.
SpellsInt(b, n) ==
  LET digits == IF n < 0 THEN Tail(b) ELSE b
  IN  /\ b # <<>>
      /\ n < 0 => b[1] = 45
      /\ digits # <<>>
      /\ ParseDigits(digits, Len(digits)) = (IF n < 0 THEN 0 - n ELSE n)
      /\ Len(digits) > 1 => digits[1] # 48

\* C2: a source that is not text is coerced whatever encoding and error
\* policy are passed: a number to the ASCII bytes of its str() form, a byte
\* string to itself (also read back through .bytes), and anything else
\* raises TypeError.
C2_NonTextCoercion ==
  (status # "new" /\ made.object.t # "text") =>
    IF made.object.t \in {"int", "float", "Decimal"}
    THEN /\ status = "constructed"
         /\ _bytes = PyStr(made.object)
         /\ \A i \in 1..Len(_bytes) : _bytes[i] < 128
         /\ made.object.t = "int" => SpellsInt(_bytes, made.object.n)
    ELSE IF made.object.t = "bytes"
         THEN /\ status = "constructed"
              /\ _bytes = made.object.b
              /\ bytes(_bytes) = Ok(made.object)
         ELSE /\ status = "failed"
              /\ made.res = Raise("TypeError")

C2_Witness ==
  /\ status = "constructed"
  /\ made.object = PyFloat(-3)
  /\ made.encoding = "utf-8"
  /\ made.errors = "replace"
  /\ _bytes = Lit(<<"-", "1", ".", "5">>)

\* The one-byte strings of b, in order.
Singles(b) == [k \in 1..Len(b) |-> PyBytes(SubSeq(b, k, k))]

\* C3: every completed iteration of the instance yielded len(b) items, the
\* k-th the one-byte string b[k:k+1] and never an integer; a later iteration
\* yields the same list as the first; a live iterator has yielded a prefix.
C3_IterationYieldsSingleBytes ==
  /\ \A r \in 1..Len(lists) :
       /\ Len(lists[r]) = Len(_bytes)
       /\ lists[r] = Singles(_bytes)
       /\ lists[r] = lists[1]
  /\ it # NoIterator => out = SubSeq(Singles(_bytes), 1, it)

C3_Witness ==
  /\ Len(lists) >= 2
  /\ Len(_bytes) >= 2
  /\ _bytes[1] # _bytes[2]

\* C4: instance[i] for an integer i is the string of length one holding the
\* byte at position i (len(b) + i for a negative i) when -len(b) <= i <
\* len(b), and raises IndexError for every other integer.
C4_IntegerIndex ==
  (last.op = "__getitem__" /\ last.arg.t = "int") =>
    LET i == last.arg.n
        n == Len(_bytes)
    IN  IF i >= 0 - n /\ i < n
        THEN last.res = Ok(PyBytes(<<_bytes[(IF i < 0 THEN n + i ELSE i) + 1]>>))
        ELSE last.res = Raise("IndexError")

C4_Witness ==
  /\ last.op = "__getitem__"
  /\ last.arg = PyInt(-1)
  /\ Len(_bytes) >= 2
  /\ last.res = Ok(PyBytes(<<_bytes[Len(_bytes)]>>))

\* A text value among the arguments: the single value, an element of the
\* tuple, or a key or value of the mapping.
HasText(arg) ==
  \/ arg.t = "text"
  \/ arg.t = "tuple" /\ \E k \in 1..Len(arg.els) : arg.els[k].t = "text"
  \/ arg.t = "dict" /\ \E x \in arg.items : x[1].t = "text" \/ x[2].t = "text"

\* C5: template % arguments raises TypeError whenever an argument is text.
C5_TextArgumentRaisesTypeError ==
  (last.op = "__mod__" /\ HasText(last.arg)) => last.res = Raise("TypeError")

\* C6 as stated: a successful template % arguments is a new octets instance.
C6_ResultIsOctets ==
  (last.op = "__mod__" /\ last.res.kind = "ok") => last.res.v.t = "octets"

\* C6 amended: a successful template % arguments is a raw bytes object (not
\* an octets instance) holding the formatted bytes, on every implementation.
C6_ResultIsRawBytes ==
  (last.op = "__mod__" /\ last.res.kind = "ok") =>
    /\ last.res.v.t = "bytes"
    /\ Ok(last.res.v.b) = Format("bytes", _bytes, last.arg)

C6_Witness ==
  /\ last.op = "__mod__"
  /\ last.res.kind = "ok"
  /\ last.arg = PyTuple(<<PyBytes(Lit(<<"x">>)), PyInt(7)>>)
  /\ last.res.v.b = Lit(<<"a", "x">>) \o StrInt(7)

\* C7: for bytes and numeric arguments that the template's placeholders
\* accept, every implementation of % formats the instance's own bytes, each
\* placeholder replaced by its argument, and all three give the same bytes.
C7_FormattingWorksOnAllVersions ==
  (/\ last.op = "__mod__"
   /\ ~HasText(last.arg)
   /\ Format("bytes", _bytes, last.arg).kind = "ok") =>
    /\ last.res.kind = "ok"
    /\ Ok(last.res.v.b) = Format("bytes", _bytes, last.arg)
    /\ \A v \in Versions : __mod__(v, _bytes, last.arg) = last.res

\* C8: converting an instance to text raises TypeError, whatever it holds.
C8_TextConversionRaises ==
  last.op = "text" => last.res = Raise("TypeError")

C8_Witness ==
  /\ last.op = "text"
  /\ _bytes = <<>>
  /\ last.res.kind = "raise"

\* C9: whatever operations were applied to a constructed instance, and
\* whether they returned or raised, .bytes is what it was right after
\* construction.
C9_DataNeverChanges ==
  status = "constructed" =>
    /\ made.res.kind = "ok"
    /\ bytes(_bytes) = Ok(PyBytes(made.res.v))

C9_Witness ==
  /\ status = "constructed"
  /\ last.op = "__mod__"
  /\ last.res.kind = "ok"
  /\ last.res.v.b # made.res.v
  /\ bytes(_bytes) = Ok(made.object)

Delegated == {"__len__", "__add__", "__contains__", "__hash__", "startswith"}

\* C10 as stated: an operation the wrapper does not define gives the result
\* of the same operation on instance.bytes, by attribute name and through
\* the operator or built-in syntax alike.
C10_EveryOperationFallsThrough ==
  (last.op \in {"getattr", "builtin"} /\ last.name \in Delegated) =>
    last.res = BytesCall(last.name, _bytes, last.arg)

\* C10 amended: a name that neither the wrapper class nor its base object
\* defines, invoked by attribute name, gives the result of the same method
\* of instance.bytes; len(instance) and instance + other do not fall
\* through and raise TypeError.
C10_NamedAccessFallsThrough ==
  /\ (/\ last.op = "getattr"
      /\ last.name \in Delegated
      /\ last.name \notin ClassDict(py) \cup ObjectDict) =>
       last.res = BytesCall(last.name, _bytes, last.arg)
  /\ (last.op = "builtin" /\ last.name \in {"__len__", "__add__"}) =>
       last.res = Raise("TypeError")

C10_Witness ==
  /\ last.op = "getattr"
  /\ last.name = "startswith"
  /\ last.arg = Lit(<<"a", "b">>)
  /\ last.res = Ok(PyBool(TRUE))

====
